---- MODULE Spec2Model ----
(***************************************************************************)
(* Order pricing and dual-ledger reconciliation of the TazeinDecor         *)
(* backend (backend/app/routers/orders.py, discounts.py): create_order as  *)
(* a sequence of steps run by concurrent requests (uvicorn workers), the   *)
(* discount resolver, the external WooCommerce mirror and the local        *)
(* database with its transactions.                                         *)
(*                                                                         *)
(* Amounts are integers (the source uses floats); the price and percentage *)
(* sets below are chosen so that price * percentage / 100 is exact.  An    *)
(* absent id (Python None) is written 0, which Python's truth tests treat  *)
(* the same way.                                                           *)
(***************************************************************************)
EXTENDS Integers, Sequences, FiniteSets, TLC

\* ------------------------------------------------------------------ bounds
\* longest cart
MaxItems == 2
\* most Return rows in the table
MaxReturns == 1
\* most entries of a return request
MaxReturnItems == 2
\* most orders awaiting an online payment
MaxPending == 1
\* the last day the calendar reaches
MaxDay == 2

\* ------------------------------------------------------- inputs and catalog
\* concurrent requests (uvicorn runs several workers)
Procs == {1, 2}
\* current_user.id of a request: both requests come from the same seller
CurrentUserId(p) == 1
\* users a discount row may belong to
Users == {1, 2}
\* external catalog product ids
ProductIds == {1, 2}
\* woo_product['categories'] of each product, in catalog order
Categories(product_id) == IF product_id = 1 THEN <<1, 2>> ELSE <<2>>
\* prices the catalog may list for a product
RetailPrices == {150, 200}
\* price of the requested variation; 0: variation not found or without price
VariationPrices == {0, 170}
\* item_data.variation_id; 0: none
VariationIds == {0, 1}
\* item_data.price; 0 stands for every price the check at line 157 rejects
CallerPrices == {0, 100}
\* discount_percentage values
Percentages == {5, 10}
\* credit balances at the start
InitialCredits == {150}
\* Discount primary keys
DiscountIds == {1, 2}

PaymentMethods == {"credit", "online"}

\* item_data.quantity
Quantities == {1, 2}

Items ==
    [product_id : ProductIds, quantity : Quantities, price : CallerPrices,
     variation_id : VariationIds]

RECURSIVE SeqsUpTo(_, _)
SeqsUpTo(S, n) ==
    IF n = 0 THEN {<<>>}
    ELSE LET shorter == SeqsUpTo(S, n - 1)
         IN  shorter \cup {Append(s, x) : s \in {t \in shorter : Len(t) = n - 1}, x \in S}

Carts == SeqsUpTo(Items, MaxItems) \ {<<>>}

OrderCreate ==
    [items : Carts, payment_method : PaymentMethods, installation_date : BOOLEAN]

\* a Discount row; exists = FALSE: no row with this id
NoDiscount ==
    [exists |-> FALSE, user_id |-> 0, category_id |-> 0,
     discount_percentage |-> 0, is_active |-> FALSE]

DiscountRow(u, c, pct, act) ==
    [exists |-> TRUE, user_id |-> u, category_id |-> c,
     discount_percentage |-> pct, is_active |-> act]

\* the in-memory Order object before it is built
NoOrder ==
    [id |-> 0, woo_id |-> 0, by |-> 0, seller_id |-> 0, payment_method |-> "none",
     installation_date |-> FALSE, status |-> "none", total_amount |-> 0,
     wholesale_amount |-> 0, cooperation_total_amount |-> 0,
     tax_amount |-> 0, discount_amount |-> 0,
     edit_requested_by |-> 0, edit_approved_by |-> 0,
     order_number |-> <<0, 0>>, is_new |-> FALSE,
     edit_requested_at |-> 0, edit_approved_at |-> 0]

\* the answer of a back-office call: the route, the caller's user id, the row
\* named, the outcome, the status query parameter as it was sent and, for
\* delete_order, the counts it reports
Reply(op, caller, id, code) ==
    [op |-> op, caller |-> caller, id |-> id, code |-> code, status |-> "",
     deleted_installations |-> 0, deleted_returns |-> 0]

NoReply == Reply("none", 0, 0, "none")

\* the in-flight request of a route that runs in several steps
Idle == [pc |-> "idle"]

\* ---------------------------------------------------------------- state
VARIABLES
    \* local database, committed state
    credit,           \* users.credit of the seller
    customers,        \* Customer rows: [mobile, by]
    orders,           \* Order rows
    order_items,      \* OrderItem rows
    installations,    \* Installation rows
    discounts,        \* Discount rows by id
    user_lock,        \* request holding the row lock on the seller (0: none)
    next_order_id,    \* orders.id sequence
    \* external storefront
    woo_orders,       \* mirrored orders
    next_woo_id,
    \* per request
    order_data,       \* the OrderCreate payload
    pc,
    customer_new,     \* this transaction inserted the Customer (flushed)
    idx,              \* position of the pricing loop
    total,
    wholesale_total,
    woo_line_items,
    applied,          \* discount_percentage resolved for each priced item (0: none)
    woo_order_id,
    user_credit,      \* current_user.credit of the session
    order,            \* the Order object of the session
    items,            \* OrderItem objects added to the session
    refreshed,        \* db.refresh(order) succeeded
    response,
    \* history
    initial_credit,
    deducted,         \* credit deduction each request has committed
    \* back office
    today,            \* the date datetime.now() gives, in days
    returns,          \* Return rows
    foreign_keys,     \* the database enforces foreign keys (PostgreSQL; not SQLite)
    handles,          \* results of create_pending_order_for_payment held by callers
    verify_req,       \* the verify_payment_and_register_order request in flight
    return_req,       \* the create_return request in flight
    reply             \* answer to the latest back-office call

dbVars == <<credit, customers, orders, order_items, installations, user_lock, next_order_id>>
wooVars == <<woo_orders, next_woo_id>>
priceVars == <<idx, total, wholesale_total, woo_line_items, applied>>
reqVars == <<order_data, pc, customer_new, priceVars, woo_order_id, user_credit, order,
             items, refreshed, response>>
officeVars == <<today, returns, foreign_keys, handles, verify_req, return_req, reply>>
vars == <<dbVars, discounts, wooVars, reqVars, initial_credit, deducted, officeVars>>

\* ------------------------------------------------------- discount resolver
\* db.query(Discount).filter(user, category, is_active).first(): the rows the
\* query matches; first() without ORDER BY returns any one of them
MatchingDiscounts(ds, user_id, category_id) ==
    {d \in DiscountIds :
        /\ ds[d].exists
        /\ ds[d].user_id = user_id
        /\ ds[d].category_id = category_id
        /\ ds[d].is_active}

\* _get_user_discount_for_category: the ids it may return ({}: None)
GetUserDiscountForCategory(ds, user_id, category_id) ==
    IF category_id # 0 /\ MatchingDiscounts(ds, user_id, category_id) # {}
    THEN MatchingDiscounts(ds, user_id, category_id)
    ELSE MatchingDiscounts(ds, user_id, 0)

\* create_order lines 170-180: the loop over category_ids with break on the
\* first discount found, then the general lookup
RECURSIVE ApplicableDiscount(_, _, _)
ApplicableDiscount(ds, user_id, category_ids) ==
    IF category_ids = <<>>
    THEN GetUserDiscountForCategory(ds, user_id, 0)
    ELSE LET found == GetUserDiscountForCategory(ds, user_id, Head(category_ids))
         IN  IF found # {} THEN found
             ELSE ApplicableDiscount(ds, user_id, Tail(category_ids))

\* the percentages create_order may resolve for a product (0: no discount)
ResolvedPercentages(ds, user_id, product_id) ==
    LET found == ApplicableDiscount(ds, user_id, Categories(product_id))
    IN  IF found = {} THEN {0} ELSE {ds[d].discount_percentage : d \in found}

\* ----------------------------------------------------------- pricing engine
\* a price check that lets a zero price through
PriceMissingOnlyNegative(item) == item.price < 0

\* line 157: not item_data.price or item_data.price <= 0
PriceMissing(item) == item.price <= 0

\* a wholesale price that takes the discount off the catalog price
WholesalePriceFromRetail(item, retail_price, pct) ==
    IF pct > 0 THEN retail_price - (retail_price * pct) \div 100 ELSE item.price

\* lines 162, 185-187: cooperation price less the discount
WholesalePrice(item, retail_price, pct) ==
    IF pct > 0 THEN item.price - (item.price * pct) \div 100 ELSE item.price

\* lines 152, 191-203: catalog price, overridden by the variation's price
RetailPrice(item, product_price, variation_price) ==
    IF item.variation_id # 0 /\ variation_price # 0 THEN variation_price
    ELSE product_price

\* line 230: max(1, int(round(quantity)))
WooQuantity(quantity) == IF quantity < 1 THEN 1 ELSE quantity

\* lines 349-371: the OrderItem built for cart line i
OrderItemOf(item, woo_item, order_id, p, i) ==
    [order_id |-> order_id, by |-> p, line |-> i, product_id |-> woo_item.product_id,
     quantity |-> item.quantity,
     price |-> IF item.price # 0 THEN item.price
               ELSE IF woo_item.quantity > 0 THEN woo_item.total \div woo_item.quantity
               ELSE woo_item.total,
     total |-> item.quantity * item.price,
     variation_id |-> item.variation_id]

RECURSIVE SumTotals(_)
SumTotals(s) == IF s = <<>> THEN 0 ELSE Head(s).total + SumTotals(Tail(s))

\* lines 373-377
CooperationTotal(order_items_, tax_amount, discount_amount) ==
    SumTotals(order_items_) + tax_amount - discount_amount

\* a handler that goes on without the external order
MirrorFailedIgnored(created) == FALSE

\* line 271: not woo_order
MirrorFailed(created) == ~created

\* line 289
InsufficientCredit(balance, amount) == balance < amount

\* ----------------------------------------------------------------- Init
\* discount tables at the start: an optional general discount of 5% and an
\* optional category discount of 10%
SomeDiscountTables ==
    {ds \in [DiscountIds -> {NoDiscount} \cup
                {DiscountRow(u, c, pct, TRUE) : u \in Users, c \in {0, 1, 2}, pct \in Percentages}] :
        /\ ds[1] = NoDiscount
              \/ (ds[1].category_id = 0 /\ ds[1].discount_percentage = 5 /\ ds[1].user_id = 1)
        /\ ds[2] = NoDiscount \/ (ds[2].category_id # 0 /\ ds[2].discount_percentage = 10)}

\* the requests in `active` have arrived, the other workers are idle
InitRequests(active) ==
    /\ pc = [p \in Procs |-> IF p \in active THEN "start" ELSE "idle"]
    /\ customer_new = [p \in Procs |-> FALSE]
    /\ idx = [p \in Procs |-> 1]
    /\ total = [p \in Procs |-> 0]
    /\ wholesale_total = [p \in Procs |-> 0]
    /\ woo_line_items = [p \in Procs |-> <<>>]
    /\ applied = [p \in Procs |-> <<>>]
    /\ woo_order_id = [p \in Procs |-> 0]
    /\ order = [p \in Procs |-> NoOrder]
    /\ items = [p \in Procs |-> <<>>]
    /\ refreshed = [p \in Procs |-> FALSE]
    /\ response = [p \in Procs |-> "none"]
    /\ deducted = [p \in Procs |-> 0]

InitDatabase ==
    /\ credit \in InitialCredits
    /\ initial_credit = credit
    /\ user_credit = [p \in Procs |-> credit]
    /\ customers \in {{}, {[mobile |-> "0912", by |-> 0]}}
    /\ orders = {}
    /\ order_items = {}
    /\ installations = {}
    /\ user_lock = 0
    /\ next_order_id = 1
    /\ woo_orders = {}
    /\ next_woo_id = 1
    /\ today = 1
    /\ returns = {}
    /\ foreign_keys = FALSE
    /\ handles = {}
    /\ verify_req = Idle
    /\ return_req = Idle
    /\ reply = NoReply

\* one request, any cart
Init ==
    /\ InitDatabase
    /\ InitRequests({1})
    /\ discounts \in {ds \in SomeDiscountTables : \A d \in DiscountIds : ds[d].user_id # 2}
    /\ \E od \in OrderCreate : order_data = [p \in Procs |-> od]

\* ------------------------------------------------------------ create_order
\* an HTTPException (or unhandled error) leaves the handler; get_db closes the
\* session, which rolls the open transaction back
Fail(p, code) ==
    /\ pc' = [pc EXCEPT ![p] = "done"]
    /\ response' = [response EXCEPT ![p] = code]
    /\ customer_new' = [customer_new EXCEPT ![p] = FALSE]
    /\ user_lock' = IF user_lock = p THEN 0 ELSE user_lock

\* lines 116-125
FindOrCreateCustomer(p) ==
    /\ pc[p] = "start"
    /\ UNCHANGED officeVars
    /\ customer_new' = [customer_new EXCEPT ![p] = ~(\E c \in customers : c.mobile = "0912")]
    /\ pc' = [pc EXCEPT ![p] = "pricing"]
    /\ UNCHANGED <<dbVars, discounts, wooVars, order_data, priceVars, woo_order_id,
                   user_credit, order, items, refreshed, response, initial_credit, deducted>>

\* lines 137-240, one pass of the loop
PriceItem(p) ==
    /\ pc[p] = "pricing"
    /\ UNCHANGED officeVars
    /\ idx[p] <= Len(order_data[p].items)
    /\ LET item == order_data[p].items[idx[p]]
       IN  \E found \in BOOLEAN, product_price \in RetailPrices,
              variation_price \in VariationPrices,
              pct \in ResolvedPercentages(discounts, CurrentUserId(p), item.product_id) :
             IF ~found
             THEN /\ Fail(p, "404 product")
                  /\ UNCHANGED priceVars
             ELSE IF PriceMissing(item)
             THEN /\ Fail(p, "400 price")
                  /\ UNCHANGED priceVars
             ELSE LET retail_price == RetailPrice(item, product_price, variation_price)
                      wholesale_price == WholesalePrice(item, retail_price, pct)
                      retail_item_total == item.quantity * retail_price
                      wholesale_item_total == item.quantity * wholesale_price
                  IN  /\ total' = [total EXCEPT ![p] = @ + retail_item_total]
                      /\ wholesale_total' = [wholesale_total EXCEPT ![p] = @ + wholesale_item_total]
                      /\ woo_line_items' = [woo_line_items EXCEPT ![p] = Append(@,
                            [product_id |-> item.product_id,
                             quantity |-> WooQuantity(item.quantity),
                             total |-> retail_item_total,
                             variation_id |-> item.variation_id])]
                      /\ applied' = [applied EXCEPT ![p] = Append(@, pct)]
                      /\ idx' = [idx EXCEPT ![p] = @ + 1]
                      /\ UNCHANGED <<pc, response, customer_new, user_lock>>
    /\ UNCHANGED <<credit, customers, orders, order_items, installations, next_order_id,
                   discounts, wooVars, order_data, woo_order_id, user_credit, order, items,
                   refreshed, initial_credit, deducted>>

\* lines 243-281: the external order is created first; woo_order is absent
\* when the call failed
CreateMirror(p) ==
    /\ pc[p] = "pricing"
    /\ UNCHANGED officeVars
    /\ idx[p] > Len(order_data[p].items)
    /\ \E created \in BOOLEAN :
         /\ woo_orders' = woo_orders \cup
               (IF created
                THEN {[id |-> next_woo_id, by |-> p,
                       status |-> IF order_data[p].payment_method = "online"
                                  THEN "processing" ELSE "pending",
                       payment_status |-> "",
                       line_items |-> woo_line_items[p]]}
                ELSE {})
         /\ next_woo_id' = IF created THEN next_woo_id + 1 ELSE next_woo_id
         /\ woo_order_id' = [woo_order_id EXCEPT ![p] = IF created THEN next_woo_id ELSE 0]
         /\ IF MirrorFailed(created)
            THEN Fail(p, "500 mirror")
            ELSE /\ pc' = [pc EXCEPT ![p] =
                       IF order_data[p].payment_method = "credit" THEN "refresh" ELSE "insert"]
                 /\ UNCHANGED <<response, customer_new, user_lock>>
    /\ UNCHANGED <<credit, customers, orders, order_items, installations, next_order_id,
                   discounts, order_data, priceVars, user_credit, order, items, refreshed,
                   initial_credit, deducted>>

\* line 287: db.refresh(current_user) reads the committed balance
RefreshUser(p) ==
    /\ pc[p] = "refresh"
    /\ UNCHANGED officeVars
    /\ user_credit' = [user_credit EXCEPT ![p] = credit]
    /\ pc' = [pc EXCEPT ![p] = "check"]
    /\ UNCHANGED <<dbVars, discounts, wooVars, order_data, customer_new, priceVars,
                   woo_order_id, order, items, refreshed, response, initial_credit, deducted>>

\* lines 289-296: the check and the deduction on the session's User object
CheckCredit(p) ==
    /\ pc[p] = "check"
    /\ UNCHANGED officeVars
    /\ IF InsufficientCredit(user_credit[p], wholesale_total[p])
       THEN /\ Fail(p, "400 credit")
            /\ UNCHANGED user_credit
       ELSE /\ user_credit' = [user_credit EXCEPT ![p] = @ - wholesale_total[p]]
            /\ pc' = [pc EXCEPT ![p] = "insert"]
            /\ UNCHANGED <<response, customer_new, user_lock>>
    /\ UNCHANGED <<credit, customers, orders, order_items, installations, next_order_id,
                   discounts, wooVars, order_data, priceVars, woo_order_id, order, items,
                   refreshed, initial_credit, deducted>>

\* the OrderItem objects of lines 349-371, one per cart line
RECURSIVE OrderItemsFrom(_, _, _, _, _)
OrderItemsFrom(cart, woo_items, order_id, p, i) ==
    IF i > Len(cart) THEN <<>>
    ELSE <<OrderItemOf(cart[i], woo_items[i], order_id, p, i)>>
            \o OrderItemsFrom(cart, woo_items, order_id, p, i + 1)

\* lines 315-329: the Order object
NewOrder(p, order_id) ==
    [NoOrder EXCEPT
        !.id = order_id,
        !.woo_id = woo_order_id[p],
        !.by = p,
        !.seller_id = CurrentUserId(p),
        !.payment_method = order_data[p].payment_method,
        !.installation_date = order_data[p].installation_date,
        !.status = "pending",
        !.total_amount = total[p],
        !.wholesale_amount = wholesale_total[p],
        !.order_number = <<today, woo_order_id[p]>>,
        !.is_new = TRUE]

\* lines 300-379: db.add(order) and db.flush() send the INSERT of the order and
\* the UPDATE of the seller's credit (which takes the row lock, held until the
\* transaction ends); the Installation and the OrderItems are added to the
\* session and cooperation_total_amount is set on the object.  An error of the
\* flush is not caught by the handler.
InsertOrder(p) ==
    /\ pc[p] = "insert"
    /\ UNCHANGED officeVars
    /\ order_data[p].payment_method = "credit" => user_lock = 0
    /\ \E flushed \in BOOLEAN :
         IF ~flushed
         THEN /\ Fail(p, "500 flush")
              /\ UNCHANGED <<next_order_id, order, items>>
         ELSE LET new_items == OrderItemsFrom(order_data[p].items, woo_line_items[p],
                                              next_order_id, p, 1)
              IN  /\ order' = [order EXCEPT ![p] =
                        [NewOrder(p, next_order_id) EXCEPT
                            !.cooperation_total_amount = CooperationTotal(new_items, 0, 0)]]
                  /\ items' = [items EXCEPT ![p] = new_items]
                  /\ next_order_id' = next_order_id + 1
                  /\ user_lock' = IF order_data[p].payment_method = "credit" THEN p ELSE user_lock
                  /\ pc' = [pc EXCEPT ![p] = "commit"]
                  /\ UNCHANGED <<response, customer_new>>
    /\ UNCHANGED <<credit, customers, orders, order_items, installations, discounts, wooVars,
                   order_data, priceVars, woo_order_id, user_credit, refreshed,
                   initial_credit, deducted>>

Range(s) == {s[i] : i \in DOMAIN s}

\* lines 381-390: db.commit() and db.refresh(order); on an error db.rollback(),
\* which drops everything the transaction added, the Order object included
Commit(p) ==
    /\ pc[p] = "commit"
    /\ UNCHANGED officeVars
    /\ \E committed \in BOOLEAN :
         IF committed
         THEN /\ orders' = orders \cup {order[p]}
              /\ order_items' = order_items \cup Range(items[p])
              /\ installations' = installations \cup
                    (IF order_data[p].installation_date
                     THEN {[order_id |-> order[p].id, by |-> p]} ELSE {})
              /\ customers' = customers \cup
                    (IF customer_new[p] THEN {[mobile |-> "0912", by |-> p]} ELSE {})
              /\ credit' = IF order_data[p].payment_method = "credit"
                           THEN user_credit[p] ELSE credit
              /\ deducted' = [deducted EXCEPT ![p] =
                    IF order_data[p].payment_method = "credit" THEN wholesale_total[p] ELSE 0]
              /\ refreshed' = [refreshed EXCEPT ![p] = TRUE]
              /\ pc' = [pc EXCEPT ![p] = "respond"]
              /\ UNCHANGED items
         ELSE /\ pc' = [pc EXCEPT ![p] = "retry"]
              /\ items' = [items EXCEPT ![p] = <<>>]
              /\ UNCHANGED <<orders, order_items, installations, customers, credit, deducted,
                             refreshed>>
    /\ customer_new' = [customer_new EXCEPT ![p] = FALSE]
    /\ user_lock' = IF user_lock = p THEN 0 ELSE user_lock
    /\ UNCHANGED <<next_order_id, discounts, wooVars, order_data, priceVars, woo_order_id,
                   user_credit, order, response, initial_credit>>

\* lines 391-439: the OrderItems are built and added again (the Order is not)
\* and committed; db.refresh(order) then raises, the Order being no longer in
\* the session; every error is swallowed.  The commit of the items alone can
\* succeed where the database does not enforce the foreign key (SQLite).
RetryCommit(p) ==
    /\ pc[p] = "retry"
    /\ UNCHANGED officeVars
    /\ \E committed \in BOOLEAN :
         LET new_items == OrderItemsFrom(order_data[p].items, woo_line_items[p],
                                         order[p].id, p, 1)
         IN  order_items' = IF committed THEN order_items \cup Range(new_items)
                            ELSE order_items
    /\ pc' = [pc EXCEPT ![p] = "respond"]
    /\ UNCHANGED <<credit, customers, orders, installations, user_lock, next_order_id,
                   discounts, wooVars, order_data, customer_new, priceVars, woo_order_id,
                   user_credit, order, items, refreshed, response, initial_credit, deducted>>

\* lines 441-443: the response is built from the Order object.  After the
\* failed path the object was never reloaded, and whether the validation of
\* the response accepts it depends on the attributes the session left on it.
Respond(p) ==
    /\ pc[p] = "respond"
    /\ UNCHANGED officeVars
    /\ \E valid \in BOOLEAN :
         /\ ~valid => ~refreshed[p]
         /\ response' = [response EXCEPT ![p] = IF valid THEN "200" ELSE "500 response"]
    /\ pc' = [pc EXCEPT ![p] = "done"]
    /\ UNCHANGED <<dbVars, discounts, wooVars, order_data, customer_new, priceVars,
                   woo_order_id, user_credit, order, items, refreshed, initial_credit,
                   deducted>>

CreateOrder(p) ==
    \/ FindOrCreateCustomer(p)
    \/ PriceItem(p)
    \/ CreateMirror(p)
    \/ RefreshUser(p)
    \/ CheckCredit(p)
    \/ InsertOrder(p)
    \/ Commit(p)
    \/ RetryCommit(p)
    \/ Respond(p)

\* --------------------------------------------------------- update_discount
\* DiscountUpdate payloads; category 0, percentage 0 and "absent": not given.
\* The payloads that change one field reach every table a longer one reaches.
DiscountUpdates ==
    {u \in [category_id : {0, 1, 2}, discount_percentage : {0} \cup Percentages,
            is_active : {"absent", "true", "false"}] :
        Cardinality({f \in {"c", "p", "a"} :
            \/ f = "c" /\ u.category_id # 0
            \/ f = "p" /\ u.discount_percentage # 0
            \/ f = "a" /\ u.is_active # "absent"}) <= 1}

\* discounts.py lines 116-138 (admin or operator)
UpdateDiscount(d, discount_data) ==
    /\ discounts[d].exists
    /\ discounts' = [discounts EXCEPT ![d] =
          [@ EXCEPT
              !.category_id = IF discount_data.category_id # 0
                              THEN discount_data.category_id ELSE @,
              !.discount_percentage = IF discount_data.discount_percentage # 0
                                      THEN discount_data.discount_percentage ELSE @,
              !.is_active = IF discount_data.is_active # "absent"
                            THEN discount_data.is_active = "true" ELSE @]]
    /\ reply' = Reply("update_discount", 0, d, "200")
    /\ UNCHANGED <<dbVars, wooVars, reqVars, initial_credit, deducted,
                   today, returns, foreign_keys, handles, verify_req, return_req>>

\* DiscountCreate payloads; category 0: None
DiscountCreates ==
    [user_id : Users, category_id : {0, 1, 2}, discount_percentage : Percentages,
     is_active : BOOLEAN]

\* discounts.py lines 15-67 (admin or operator); the users are sellers and the
\* categories exist.  The table holds as many rows as there are DiscountIds.
CreateDiscount(discount_data) ==
    LET existing == MatchingDiscounts(discounts, discount_data.user_id,
                                      discount_data.category_id)
        free == {d \in DiscountIds : ~discounts[d].exists}
    IN  /\ IF existing # {}
           THEN \E d \in existing :
                  /\ discounts' = [discounts EXCEPT ![d] =
                        [@ EXCEPT !.discount_percentage = discount_data.discount_percentage,
                                  !.is_active = discount_data.is_active]]
                  /\ reply' = Reply("create_discount", 0, d, "200")
           ELSE /\ free # {}
                /\ LET d == CHOOSE x \in free : \A y \in free : x <= y
                   IN  /\ discounts' = [discounts EXCEPT ![d] =
                             DiscountRow(discount_data.user_id, discount_data.category_id,
                                         discount_data.discount_percentage,
                                         discount_data.is_active)]
                       /\ reply' = Reply("create_discount", 0, d, "200")
        /\ UNCHANGED <<dbVars, wooVars, reqVars, initial_credit, deducted,
                       today, returns, foreign_keys, handles, verify_req, return_req>>

\* discounts.py lines 141-155
DeleteDiscount(d) ==
    /\ IF discounts[d].exists
       THEN /\ discounts' = [discounts EXCEPT ![d] = NoDiscount]
            /\ reply' = Reply("delete_discount", 0, d, "204")
       ELSE /\ reply' = Reply("delete_discount", 0, d, "404")
            /\ UNCHANGED discounts
    /\ UNCHANGED <<dbVars, wooVars, reqVars, initial_credit, deducted,
                   today, returns, foreign_keys, handles, verify_req, return_req>>

\* ------------------------------------------------------------ invoice edits
\* callers of the invoice routes
Actors ==
    {[id |-> 1, role |-> "seller"], [id |-> 2, role |-> "seller"],
     [id |-> 3, role |-> "operator"], [id |-> 4, role |-> "store_manager"]}

\* InvoiceUpdate payloads; -1: field not given
InvoiceUpdates == [tax_amount : {-1, 0, 9}, discount_amount : {-1, 0, 4}]

\* lines 1365-1380 and 1411-1426: the fields given are copied to the order
WithInvoiceFields(o, invoice_data) ==
    [o EXCEPT
        !.tax_amount = IF invoice_data.tax_amount # -1 THEN invoice_data.tax_amount ELSE @,
        !.discount_amount = IF invoice_data.discount_amount # -1
                            THEN invoice_data.discount_amount ELSE @]

\* Order ids a caller may name
OrderIds == {1, 2}

\* the Order rows db.query(Order).filter(Order.id == order_id) matches
OrdersWithId(order_id) == {o \in orders : o.id = order_id}

\* an edit request that leaves an earlier approval in place
RequestEditKeepingApproval(o, user_id, now) ==
    [o EXCEPT !.edit_requested_by = user_id, !.edit_requested_at = now]

\* lines 1356-1359
RequestEdit(o, user_id, now) ==
    [o EXCEPT !.edit_requested_by = user_id, !.edit_requested_at = now,
              !.edit_approved_by = 0, !.edit_approved_at = 0]

\* an approval that closes the edit request
ApproveEditClosingRequest(o, user_id, now) ==
    [o EXCEPT !.edit_approved_by = user_id, !.edit_approved_at = now,
              !.edit_requested_by = 0, !.edit_requested_at = 0]

\* lines 1361-1363, 1383-1385 and 1428-1430
ApproveEdit(o, user_id, now) ==
    [o EXCEPT !.edit_approved_by = user_id, !.edit_approved_at = now]

\* an approval that does not look for a pending request
NoEditPendingIgnored(o) == FALSE

\* line 1408: not order.edit_requested_by
NoEditPending(o) == o.edit_requested_by = 0

\* the back-office routes below run in one step: they read, change and commit
\* one row; the other tables and the create_order requests are left alone
OfficeFrame ==
    UNCHANGED <<credit, customers, user_lock, next_order_id, discounts, wooVars, reqVars,
                initial_credit, deducted, today, foreign_keys, handles, verify_req,
                return_req>>

\* lines 1327-1393
UpdateInvoice(current_user, order_id, invoice_data) ==
    LET is_clerk == current_user.role \in {"operator", "admin"}
        is_seller_or_manager == current_user.role \in {"seller", "store_manager"}
    IN  /\ IF OrdersWithId(order_id) = {}
           THEN /\ reply' = Reply("update_invoice", current_user.id, order_id, "404")
                /\ UNCHANGED orders
           ELSE LET o == CHOOSE x \in OrdersWithId(order_id) : TRUE
                IN  IF ~(is_clerk \/ is_seller_or_manager)
                       \/ (is_seller_or_manager /\ current_user.role = "seller"
                             /\ o.seller_id # current_user.id)
                    THEN /\ reply' = Reply("update_invoice", current_user.id, order_id, "403")
                         /\ UNCHANGED orders
                    ELSE /\ orders' = (orders \ {o}) \cup
                               {IF is_seller_or_manager
                                THEN WithInvoiceFields(
                                        RequestEdit(o, current_user.id, today), invoice_data)
                                ELSE WithInvoiceFields(
                                        ApproveEdit(o, current_user.id, today), invoice_data)}
                         /\ reply' = Reply("update_invoice", current_user.id, order_id, "200")
        /\ UNCHANGED <<order_items, installations, returns>>
        /\ OfficeFrame

\* lines 1396-1438 (operator or admin)
ApproveInvoiceEdit(current_user, order_id, invoice_data) ==
    /\ IF current_user.role \notin {"operator", "admin"}
       THEN /\ reply' = Reply("approve_invoice_edit", current_user.id, order_id, "403")
            /\ UNCHANGED orders
       ELSE IF OrdersWithId(order_id) = {}
       THEN /\ reply' = Reply("approve_invoice_edit", current_user.id, order_id, "404")
            /\ UNCHANGED orders
       ELSE LET o == CHOOSE x \in OrdersWithId(order_id) : TRUE
            IN  IF NoEditPending(o)
                THEN /\ reply' = Reply("approve_invoice_edit", current_user.id, order_id, "400 no edit pending")
                     /\ UNCHANGED orders
                ELSE /\ orders' = (orders \ {o}) \cup
                           {ApproveEdit(WithInvoiceFields(o, invoice_data),
                                        current_user.id, today)}
                     /\ reply' = Reply("approve_invoice_edit", current_user.id, order_id,
                                       "200")
    /\ UNCHANGED <<order_items, installations, returns>>
    /\ OfficeFrame

\* ------------------------------------------------------------ order status
\* OrderStatus values (models.py lines 119-130)
OrderStatusValues ==
    {"pending", "confirmed", "processing", "delivered", "returned", "cancelled",
     "pending_completion", "in_progress", "settled"}

\* str.lower() on the strings that occur here
Lower(str) ==
    CASE str = "RETURNED" -> "returned"
      [] str = "CANCELLED" -> "cancelled"
      [] str = "SETTLED" -> "settled"
      [] str = "Settled" -> "settled"
      [] str = " SETTLED " -> " settled "
      [] str = "IN_PROGRESS" -> "in_progress"
      [] str = "SHIPPED" -> "shipped"
      [] str = "Completed" -> "completed"
      [] str = "PAID" -> "paid"
      [] OTHER -> str

\* str.strip() on the strings that occur here
Strip(str) ==
    CASE str = " settled " -> "settled"
      [] str = " SETTLED " -> "SETTLED"
      [] OTHER -> str

\* Order.status_enum (models.py lines 352-364) with OrderStatus._missing_
\* (lines 131-143): the member whose value is the lowercased string, PENDING
\* when there is none
StatusEnum(status) ==
    IF Lower(status) \in OrderStatusValues THEN Lower(status) ELSE "pending"

\* a return guard that never finds the order returned
AlreadyReturnedNever(o) == FALSE

\* line 1236
AlreadyReturned(o) == StatusEnum(o.status) = "returned"

\* line 1238
AlreadyCancelled(o) == StatusEnum(o.status) = "cancelled"

\* lines 1220-1245
ReturnOrder(current_user, order_id) ==
    /\ IF OrdersWithId(order_id) = {}
       THEN /\ reply' = Reply("return_order", current_user.id, order_id, "404")
            /\ UNCHANGED orders
       ELSE LET o == CHOOSE x \in OrdersWithId(order_id) : TRUE
            IN  IF current_user.role = "seller" /\ o.seller_id # current_user.id
                THEN /\ reply' = Reply("return_order", current_user.id, order_id, "403")
                     /\ UNCHANGED orders
                ELSE IF AlreadyReturned(o)
                THEN /\ reply' = Reply("return_order", current_user.id, order_id,
                                       "400 already returned")
                     /\ UNCHANGED orders
                ELSE IF AlreadyCancelled(o)
                THEN /\ reply' = Reply("return_order", current_user.id, order_id,
                                       "400 cannot return cancelled")
                     /\ UNCHANGED orders
                ELSE /\ orders' = (orders \ {o}) \cup
                           {[o EXCEPT !.status = "returned", !.is_new = FALSE]}
                     /\ reply' = Reply("return_order", current_user.id, order_id, "200")
    /\ UNCHANGED <<order_items, installations, returns>>
    /\ OfficeFrame

\* a status update that clears the flag whatever the new status
NotPendingAlways(status) == TRUE

\* line 1195: status != OrderStatus.PENDING
NotPending(status) == status # "pending"

\* lines 1182-1200 (operator only); status is an OrderStatus member
UpdateOrderStatus(current_user, order_id, status) ==
    /\ IF current_user.role # "operator"
       THEN /\ reply' = Reply("update_order_status", current_user.id, order_id, "403")
            /\ UNCHANGED orders
       ELSE IF OrdersWithId(order_id) = {}
       THEN /\ reply' = Reply("update_order_status", current_user.id, order_id, "404")
            /\ UNCHANGED orders
       ELSE LET o == CHOOSE x \in OrdersWithId(order_id) : TRUE
            IN  /\ orders' = (orders \ {o}) \cup
                      {[o EXCEPT !.status = status,
                                 !.is_new = IF NotPending(status) THEN FALSE ELSE @]}
                /\ reply' = [Reply("update_order_status", current_user.id, order_id, "200")
                                EXCEPT !.status = status]
    /\ UNCHANGED <<order_items, installations, returns>>
    /\ OfficeFrame

\* values of the status query parameter of update_invoice_status
InvoiceStatusInputs ==
    {"pending_completion", "in_progress", "IN_PROGRESS", "settled", "SETTLED", "Settled",
     " settled ", " SETTLED ", "shipped", "SHIPPED", "returned", ""}

\* line 1262
NormalizedStatus(status) == Strip(Lower(status))

\* a validation that lets every value through
InStatusMapAlways(status) == TRUE

\* lines 1265-1271
InStatusMap(status) == status \in {"pending_completion", "in_progress", "settled"}

\* lines 1249-1324 (operator or admin).  The commit may fail; the handler then
\* rolls back and answers 500, unless its second attempt with a plain UPDATE
\* writes the same values.  An error of db.refresh after the commit is answered
\* with 500 too.
UpdateInvoiceStatus(current_user, order_id, status) ==
    /\ IF current_user.role \notin {"operator", "admin"}
       THEN /\ reply' = [Reply("update_invoice_status", current_user.id, order_id, "403")
                            EXCEPT !.status = status]
            /\ UNCHANGED orders
       ELSE IF OrdersWithId(order_id) = {}
       THEN /\ reply' = [Reply("update_invoice_status", current_user.id, order_id, "404")
                            EXCEPT !.status = status]
            /\ UNCHANGED orders
       ELSE IF ~InStatusMap(NormalizedStatus(status))
       THEN /\ reply' = [Reply("update_invoice_status", current_user.id, order_id, "400")
                            EXCEPT !.status = status]
            /\ UNCHANGED orders
       ELSE LET o == CHOOSE x \in OrdersWithId(order_id) : TRUE
            IN  \E committed \in BOOLEAN, reloaded \in BOOLEAN :
                  IF committed
                  THEN /\ orders' = (orders \ {o}) \cup
                             {[o EXCEPT !.status = NormalizedStatus(status),
                                        !.is_new = FALSE]}
                       /\ reply' = [Reply("update_invoice_status", current_user.id,
                                          order_id, IF reloaded THEN "200" ELSE "500")
                                       EXCEPT !.status = status]
                  ELSE /\ UNCHANGED orders
                       /\ reply' = [Reply("update_invoice_status", current_user.id,
                                          order_id, "500") EXCEPT !.status = status]
    /\ UNCHANGED <<order_items, installations, returns>>
    /\ OfficeFrame

\* ----------------------------------------------------------- online payment
\* colleague_price the price API may give; 0: none (lines 29-51)
ColleaguePrices == {0, 80}

\* what the catalog answers for one cart line
CatalogAnswers ==
    [found : BOOLEAN, product_price : RetailPrices, variation_price : VariationPrices,
     colleague_price : ColleaguePrices]

\* lines 495-508: the cooperation price of a line; 0: none, the request fails
CooperationPrice(item, colleague_price) ==
    IF PriceMissing(item) THEN colleague_price ELSE item.price

\* lines 481-572, one pass of the loop: the outcome, the retail and the
\* wholesale total of the line
PendingLine(item, answer, pct) ==
    IF ~answer.found THEN [code |-> "404 product", total |-> 0, wholesale |-> 0]
    ELSE IF CooperationPrice(item, answer.colleague_price) <= 0
    THEN [code |-> "400 price", total |-> 0, wholesale |-> 0]
    ELSE LET priced == [item EXCEPT !.price = CooperationPrice(item, answer.colleague_price)]
             retail_price == RetailPrice(item, answer.product_price, answer.variation_price)
         IN  [code |-> "",
              total |-> item.quantity * retail_price,
              wholesale |-> item.quantity * WholesalePrice(priced, retail_price, pct)]

\* lines 481-572, the loop: it stops at the first line that fails
RECURSIVE PendingLines(_, _, _, _)
PendingLines(cart, answers, pcts, i) ==
    IF i > Len(cart)
    THEN [code |-> "", total |-> 0, wholesale |-> 0, line_items |-> <<>>]
    ELSE LET line == PendingLine(cart[i], answers[i], pcts[i])
             rest == PendingLines(cart, answers, pcts, i + 1)
         IN  IF line.code # "" THEN [code |-> line.code, total |-> 0, wholesale |-> 0,
                                     line_items |-> <<>>]
             ELSE [code |-> rest.code,
                   total |-> line.total + rest.total,
                   wholesale |-> line.wholesale + rest.wholesale,
                   line_items |-> <<[product_id |-> cart[i].product_id,
                                     quantity |-> WooQuantity(cart[i].quantity),
                                     total |-> line.wholesale,
                                     variation_id |-> cart[i].variation_id]>>
                                  \o rest.line_items]

\* the discount percentages the resolver may give for each line of a cart
PercentagesFor(cart) ==
    {pcts \in [1 .. Len(cart) -> {0} \cup Percentages] :
        \A i \in 1 .. Len(cart) :
            pcts[i] \in ResolvedPercentages(discounts, 1, cart[i].product_id)}

\* the id of the Customer the route hands back: 1 a row that is committed,
\* 2 the row it flushed itself, which is rolled back when the session closes
HandleCustomerId == IF customers # {} THEN 1 ELSE 2

\* lines 446-618: nothing is committed locally; the external order is created
\* with status pending and the wholesale line totals
CreatePendingOrder(od, answers) ==
    /\ Cardinality(handles) < MaxPending
    /\ IF od.payment_method # "online"
       THEN /\ reply' = Reply("create_pending_order", 1, 0, "400 not online")
            /\ UNCHANGED <<wooVars, handles>>
       ELSE \E pcts \in PercentagesFor(od.items), created \in BOOLEAN :
              LET priced == PendingLines(od.items, answers, pcts, 1)
              IN  IF priced.code # ""
                  THEN /\ reply' = Reply("create_pending_order", 1, 0, priced.code)
                       /\ UNCHANGED <<wooVars, handles>>
                  ELSE IF MirrorFailed(created)
                  THEN /\ reply' = Reply("create_pending_order", 1, 0, "500 mirror")
                       /\ UNCHANGED <<wooVars, handles>>
                  ELSE /\ woo_orders' = woo_orders \cup
                             {[id |-> next_woo_id, by |-> 0, status |-> "pending",
                               payment_status |-> "", line_items |-> priced.line_items]}
                       /\ next_woo_id' = next_woo_id + 1
                       /\ handles' = handles \cup
                             {[woo_order_id |-> next_woo_id,
                               total_amount |-> priced.total,
                               wholesale_amount |-> priced.wholesale,
                               customer_id |-> HandleCustomerId,
                               order_data |-> od]}
                       /\ reply' = Reply("create_pending_order", 1, next_woo_id, "200")
    /\ UNCHANGED <<dbVars, discounts, reqVars, initial_credit, deducted, today, returns,
                   foreign_keys, verify_req, return_req>>

\* what the storefront and its payment gateway make of a pending order
PaymentOutcomes ==
    {[status |-> "processing", payment_status |-> ""],
     [status |-> "Completed", payment_status |-> ""],
     [status |-> "pending", payment_status |-> "PAID"],
     [status |-> "failed", payment_status |-> ""],
     [status |-> "cancelled", payment_status |-> "failed"]}

ExternalPayment(woo_order, outcome) ==
    /\ woo_order \in woo_orders
    /\ woo_order.status = "pending" /\ woo_order.payment_status = ""
    /\ woo_orders' = (woo_orders \ {woo_order}) \cup
          {[woo_order EXCEPT !.status = outcome.status,
                             !.payment_status = outcome.payment_status]}
    /\ reply' = Reply("external_payment", 0, woo_order.id, outcome.status)
    /\ UNCHANGED <<dbVars, discounts, next_woo_id, reqVars, initial_credit, deducted, today,
                   returns, foreign_keys, handles, verify_req, return_req>>

\* the date changes
NextDay ==
    /\ today < MaxDay
    /\ today' = today + 1
    /\ reply' = Reply("next_day", 0, 0, "")
    /\ UNCHANGED <<dbVars, discounts, wooVars, reqVars, initial_credit, deducted, returns,
                   foreign_keys, handles, verify_req, return_req>>

\* a payment check that takes every order for paid
IsPaidAlways(woo_status, payment_status) == TRUE

\* lines 666-677
IsPaid(woo_status, payment_status) ==
    \/ Lower(payment_status) = "paid"
    \/ Lower(woo_status) \in {"processing", "completed"}
    \/ (Lower(woo_status) = "pending" /\ Lower(payment_status) = "paid")

\* the verify_data a caller sends for a handle: customer_id and the two amounts
\* are optional (0: left out); the amounts are sent or left out together
VerifyRequests ==
    UNION {{[woo_order_id |-> h.woo_order_id, order_data |-> h.order_data,
             customer_id |-> c,
             total_amount |-> IF amounts THEN h.total_amount ELSE 0,
             wholesale_amount |-> IF amounts THEN h.wholesale_amount ELSE 0] :
               c \in {0, h.customer_id}, amounts \in BOOLEAN} : h \in handles}

\* woocommerce_client.get_order: the order, or nothing ({}) when the call
\* fails or the order is gone
GetOrder(woo_id, fetched) ==
    IF fetched THEN {w \in woo_orders : w.id = woo_id} ELSE {}

\* lines 621-683: the request is parsed, the external order fetched and the
\* payment checked; nothing is written
VerifyFetch(verify_data) ==
    /\ verify_req.pc = "idle"
    /\ \E fetched \in BOOLEAN :
         LET found == GetOrder(verify_data.woo_order_id, fetched)
         IN  IF found = {}
             THEN /\ reply' = Reply("verify_payment", 1, verify_data.woo_order_id, "404 order")
                  /\ UNCHANGED verify_req
             ELSE \E woo_order \in found :
                    IF ~IsPaid(woo_order.status, woo_order.payment_status)
                    THEN /\ reply' = Reply("verify_payment", 1, verify_data.woo_order_id,
                                           "400 unpaid")
                         /\ UNCHANGED verify_req
                    ELSE /\ verify_req' = [pc |-> "register", verify_data |-> verify_data,
                                           woo_order |-> woo_order]
                         /\ reply' = Reply("verify_payment", 1, verify_data.woo_order_id,
                                           "paid")
    /\ UNCHANGED <<dbVars, discounts, wooVars, reqVars, initial_credit, deducted, today,
                   returns, foreign_keys, handles, return_req>>

\* lines 688-693: the Customer with the id sent.  The id of a row that was
\* rolled back is given again to the next row where ids are reused (SQLite)
CustomerFound(customer_id) ==
    \/ customer_id = 1 /\ customers # {}
    \/ customer_id = 2 /\ ~foreign_keys /\ customers # {}

\* lines 763-798, one line: the OrderItem of cart line i
VerifyItem(item, answer, pct, order_id, i) ==
    LET retail_price == IF answer.found THEN answer.product_price ELSE 0
        cooperation_price == IF item.price # 0 THEN item.price ELSE retail_price
        wholesale_price == IF answer.found /\ pct > 0
                           THEN cooperation_price - (cooperation_price * pct) \div 100
                           ELSE cooperation_price
    IN  [order_id |-> order_id, by |-> 0, line |-> i, product_id |-> item.product_id,
         quantity |-> item.quantity, price |-> wholesale_price,
         total |-> item.quantity * wholesale_price, variation_id |-> item.variation_id]

RECURSIVE VerifyItems(_, _, _, _, _)
VerifyItems(cart, answers, pcts, order_id, i) ==
    IF i > Len(cart) THEN <<>>
    ELSE <<VerifyItem(cart[i], answers[i], pcts[i], order_id, i)>>
            \o VerifyItems(cart, answers, pcts, order_id, i + 1)

\* line 710: the date is that of the moment of registration
VerifyOrderNumber(woo_id) == <<today, woo_id>>

\* lines 707-708, 731-745: the Order object; the route does not set woo_order_id
VerifiedOrder(verify_data, woo_order, order_id) ==
    LET total_ == IF verify_data.total_amount > 0 THEN verify_data.total_amount
                  ELSE SumTotals(woo_order.line_items)
        wholesale_total_ == IF verify_data.wholesale_amount > 0
                            THEN verify_data.wholesale_amount ELSE total_
    IN  [NoOrder EXCEPT
            !.id = order_id,
            !.seller_id = 1,
            !.payment_method = "online",
            !.installation_date = verify_data.order_data.installation_date,
            !.status = "pending",
            !.total_amount = total_,
            !.wholesale_amount = wholesale_total_,
            !.order_number = VerifyOrderNumber(verify_data.woo_order_id),
            !.is_new = TRUE]

\* lines 686-825: between the two external calls the route runs without a
\* pause: customer, the search for the order number, the Order, its
\* Installation and OrderItems, and the commit
VerifyRegister ==
    /\ verify_req.pc = "register"
    /\ LET verify_data == verify_req.verify_data
           cart == verify_data.order_data.items
           fail(code) == /\ reply' = Reply("verify_payment", 1, verify_data.woo_order_id, code)
                         /\ verify_req' = Idle
                         /\ UNCHANGED <<customers, orders, order_items, installations,
                                        next_order_id>>
       IN  IF verify_data.customer_id # 0 /\ ~CustomerFound(verify_data.customer_id)
           THEN fail("404 customer")
           ELSE IF \E o \in orders :
                      o.order_number = VerifyOrderNumber(verify_data.woo_order_id)
           THEN fail("200 existing")
           ELSE \E flushed \in BOOLEAN, committed \in BOOLEAN,
                   answers \in [1 .. Len(cart) -> CatalogAnswers],
                   pcts \in PercentagesFor(cart) :
                  IF ~flushed THEN fail("500 flush")
                  ELSE IF ~committed THEN fail("500 commit")
                  ELSE LET new_items == VerifyItems(cart, answers, pcts, next_order_id, 1)
                       IN  /\ orders' = orders \cup
                                 {[VerifiedOrder(verify_data, verify_req.woo_order,
                                                 next_order_id)
                                     EXCEPT !.cooperation_total_amount =
                                                CooperationTotal(new_items, 0, 0)]}
                           /\ order_items' = order_items \cup Range(new_items)
                           /\ installations' = installations \cup
                                 (IF verify_data.order_data.installation_date
                                  THEN {[order_id |-> next_order_id, by |-> 0]} ELSE {})
                           /\ customers' = customers \cup
                                 (IF verify_data.customer_id = 0 /\ customers = {}
                                  THEN {[mobile |-> "0912", by |-> 0]} ELSE {})
                           /\ next_order_id' = next_order_id + 1
                           /\ verify_req' = [verify_req EXCEPT !.pc = "mirror"]
                           /\ reply' = Reply("verify_payment", 1, verify_data.woo_order_id,
                                             "registered")
    /\ UNCHANGED <<credit, user_lock, discounts, wooVars, reqVars, initial_credit, deducted,
                   today, returns, foreign_keys, handles, return_req>>

\* lines 827-835: the external order is set to processing (the outcome of the
\* call is not looked at) and the Order returned
VerifyUpdateMirror ==
    /\ verify_req.pc = "mirror"
    /\ \E updated \in BOOLEAN :
         woo_orders' =
            IF updated
            THEN {IF w.id = verify_req.verify_data.woo_order_id
                  THEN [w EXCEPT !.status = "processing"] ELSE w : w \in woo_orders}
            ELSE woo_orders
    /\ verify_req' = Idle
    /\ reply' = Reply("verify_payment", 1, verify_req.verify_data.woo_order_id, "200")
    /\ UNCHANGED <<dbVars, discounts, next_woo_id, reqVars, initial_credit, deducted, today,
                   returns, foreign_keys, handles, return_req>>

\* lines 838-861: the external order is deleted; no local table is touched
CancelPendingOrder(woo_id) ==
    /\ \E deleted \in BOOLEAN :
         IF deleted /\ \E w \in woo_orders : w.id = woo_id
         THEN /\ woo_orders' = {w \in woo_orders : w.id # woo_id}
              /\ reply' = Reply("cancel_pending_order", 1, woo_id, "200")
         ELSE /\ UNCHANGED woo_orders
              /\ reply' = Reply("cancel_pending_order", 1, woo_id, "500")
    /\ UNCHANGED <<dbVars, discounts, next_woo_id, reqVars, initial_credit, deducted, today,
                   returns, foreign_keys, handles, verify_req, return_req>>

\* ------------------------------------------------------------------ returns
\* OrderItem.id, written as the pair of the order and the line
OrderItemId(row) == <<row.order_id, row.line>>

\* an entry of ReturnCreate.items without the key order_item_id
AbsentKey == <<0, 0>>

\* entries of ReturnCreate.items: {order_item_id, quantity}
ReturnEntries == [order_item_id : {AbsentKey, <<1, 1>>, <<2, 1>>}, quantity : {1, 3}]

ReturnCreate ==
    [order_id : OrderIds, items : SeqsUpTo(ReturnEntries, MaxReturnItems)]

\* User.created_by: manager 4 created seller 1
CreatedBy(user_id) == IF user_id = 1 THEN 4 ELSE 0

\* lines 49-66, one entry: the error it raises ("": none)
EntryError(entry, order_id) ==
    IF entry.order_item_id = AbsentKey THEN ""
    ELSE LET rows == {r \in order_items : r.order_id = order_id
                                            /\ OrderItemId(r) = entry.order_item_id}
         IN  IF rows = {} THEN "400 item"
             ELSE IF \E r \in rows : entry.quantity > r.quantity THEN "400 quantity"
             ELSE ""

\* lines 48-66: the loop stops at the first entry in error
RECURSIVE ItemsError(_, _)
ItemsError(entries, order_id) ==
    IF entries = <<>> THEN ""
    ELSE IF EntryError(Head(entries), order_id) # "" THEN EntryError(Head(entries), order_id)
    ELSE ItemsError(Tail(entries), order_id)

\* returns.py lines 16-66: the checks of create_return, made on what the
\* session reads before it writes
CreateReturnValidate(current_user, return_data) ==
    /\ return_req.pc = "idle"
    /\ Cardinality(returns) < MaxReturns
    /\ LET order_id == return_data.order_id
           found == OrdersWithId(order_id)
           o == CHOOSE x \in found : TRUE
           code ==
              IF current_user.role \notin {"seller", "store_manager"} THEN "403"
              ELSE IF found = {} THEN "404"
              ELSE IF current_user.role = "seller" /\ o.seller_id # current_user.id THEN "403"
              ELSE IF /\ current_user.role = "store_manager"
                      /\ o.seller_id # current_user.id
                      /\ CreatedBy(o.seller_id) # current_user.id THEN "403"
              ELSE IF return_data.items = <<>> THEN "400 no items"
              ELSE ItemsError(return_data.items, order_id)
       IN  IF code # ""
           THEN /\ reply' = Reply("create_return", current_user.id, order_id, code)
                /\ UNCHANGED return_req
           ELSE /\ reply' = Reply("create_return", current_user.id, order_id, "validated")
                /\ return_req' = [pc |-> "insert", caller |-> current_user.id,
                                  order_id |-> order_id, items |-> return_data.items]
    /\ UNCHANGED <<orders, order_items, installations, returns>>
    /\ UNCHANGED <<credit, customers, user_lock, next_order_id, discounts, wooVars, reqVars,
                   initial_credit, deducted, today, foreign_keys, handles, verify_req>>

\* returns.py lines 68-81: the INSERT and the commit.  A database that enforces
\* foreign keys refuses the row when the order is gone.
CreateReturnCommit ==
    /\ return_req.pc = "insert"
    /\ IF foreign_keys /\ OrdersWithId(return_req.order_id) = {}
       THEN /\ reply' = Reply("create_return", return_req.caller, return_req.order_id, "500")
            /\ UNCHANGED returns
       ELSE /\ returns' = returns \cup
                  {[id |-> CHOOSE i \in 1..MaxReturns : \A r \in returns : r.id # i,
                    order_id |-> return_req.order_id, items |-> return_req.items,
                    status |-> "pending", is_new |-> TRUE]}
            /\ reply' = Reply("create_return", return_req.caller, return_req.order_id, "200")
    /\ return_req' = Idle
    /\ UNCHANGED <<orders, order_items, installations>>
    /\ UNCHANGED <<credit, customers, user_lock, next_order_id, discounts, wooVars, reqVars,
                   initial_credit, deducted, today, foreign_keys, handles, verify_req>>

\* orders.py lines 1446-1499 (admin or operator): one transaction; on an error
\* it is rolled back
DeleteOrder(current_user, order_id) ==
    /\ IF current_user.role \notin {"admin", "operator"}
       THEN /\ reply' = Reply("delete_order", current_user.id, order_id, "403")
            /\ UNCHANGED <<orders, order_items, installations, returns>>
       ELSE IF OrdersWithId(order_id) = {}
       THEN /\ reply' = Reply("delete_order", current_user.id, order_id, "404")
            /\ UNCHANGED <<orders, order_items, installations, returns>>
       ELSE \E committed \in BOOLEAN :
              IF committed
              THEN LET its == {r \in installations : r.order_id = order_id}
                       rets == {r \in returns : r.order_id = order_id}
                   IN  /\ installations' = installations \ its
                       /\ returns' = returns \ rets
                       /\ orders' = orders \ OrdersWithId(order_id)
                       /\ order_items' = {r \in order_items : r.order_id # order_id}
                       /\ reply' = [Reply("delete_order", current_user.id, order_id, "200")
                                       EXCEPT !.deleted_installations = Cardinality(its),
                                              !.deleted_returns = Cardinality(rets)]
              ELSE /\ reply' = Reply("delete_order", current_user.id, order_id, "500")
                   /\ UNCHANGED <<orders, order_items, installations, returns>>
    /\ OfficeFrame

\* an order committed earlier by create_order: one line of 2 units at 100
SeedOrder(id, seller_id) ==
    [NoOrder EXCEPT !.id = id, !.woo_id = id, !.seller_id = seller_id,
                    !.payment_method = "online", !.status = "pending",
                    !.total_amount = 300, !.wholesale_amount = 200,
                    !.cooperation_total_amount = 200,
                    !.order_number = <<1, id>>, !.is_new = TRUE]

SeedItem(order_id) ==
    [order_id |-> order_id, by |-> 0, line |-> 1, product_id |-> 1, quantity |-> 2,
     price |-> 100, total |-> 200, variation_id |-> 0]

\* ------------------------------------------------------------ specifications
OneLineCarts == {c \in Carts : Len(c) = 1}

Next ==
    \E p \in Procs : CreateOrder(p)

\* one create_order request, any cart
Spec == Init /\ [][Next]_vars

\* the same one-line order submitted twice at once
InitRace ==
    /\ InitDatabase
    /\ InitRequests(Procs)
    /\ discounts \in {ds \in SomeDiscountTables : \A d \in DiscountIds : ds[d].user_id # 2}
    /\ \E od \in OrderCreate :
          /\ od.items \in OneLineCarts
          /\ order_data = [p \in Procs |-> od]

SpecRace == InitRace /\ [][Next]_vars

\* one request while an administrator edits the discounts
InitDiscount ==
    /\ InitDatabase
    /\ InitRequests({1})
    /\ customers = {}
    /\ discounts \in SomeDiscountTables
    /\ \E od \in OrderCreate :
          /\ od.items \in OneLineCarts
          /\ ~od.installation_date
          /\ order_data = [p \in Procs |-> od]

NextDiscount ==
    \/ \E p \in Procs : CreateOrder(p)
    \/ \E d \in DiscountIds, discount_data \in DiscountUpdates : UpdateDiscount(d, discount_data)

SpecDiscount == InitDiscount /\ [][NextDiscount]_vars

\* one request, then invoice edits and approvals of the order
NextInvoice ==
    \/ \E p \in Procs : CreateOrder(p)
    \/ \E u \in Actors, order_id \in OrderIds, invoice_data \in InvoiceUpdates :
          UpdateInvoice(u, order_id, invoice_data)
    \/ \E u \in Actors, order_id \in OrderIds, invoice_data \in InvoiceUpdates :
          ApproveInvoiceEdit(u, order_id, invoice_data)

InitInvoice ==
    /\ InitDatabase
    /\ InitRequests({1})
    /\ customers = {}
    /\ discounts \in {ds \in SomeDiscountTables : ds[2] = NoDiscount}
    /\ \E od \in OrderCreate :
          /\ od.items \in OneLineCarts
          /\ od.items[1].product_id = 1
          /\ od.items[1].variation_id = 0
          /\ od.items[1].price = 100
          /\ ~od.installation_date
          /\ order_data = [p \in Procs |-> od]

SpecInvoice == InitInvoice /\ [][NextInvoice]_vars

\* a database holding the orders os with their items and installations, the
\* external mirror of each, and no request in flight
InitOffice(os, its, ins) ==
    /\ InitRequests({})
    /\ credit \in InitialCredits
    /\ initial_credit = credit
    /\ user_credit = [p \in Procs |-> credit]
    /\ customers = {[mobile |-> "0912", by |-> 0]}
    /\ orders = os
    /\ order_items = its
    /\ installations = ins
    /\ user_lock = 0
    /\ next_order_id = 3
    /\ woo_orders = {[id |-> o.woo_id, by |-> 0, status |-> "processing",
                      payment_status |-> "",
                      line_items |-> <<[product_id |-> 1, quantity |-> 2, total |-> 300,
                                        variation_id |-> 0]>>] : o \in os}
    /\ next_woo_id = 3
    /\ discounts = [d \in DiscountIds |-> NoDiscount]
    /\ order_data = [p \in Procs |->
          [items |-> <<[product_id |-> 1, quantity |-> 2, price |-> 100, variation_id |-> 0]>>,
           payment_method |-> "online", installation_date |-> FALSE]]
    /\ today = 1
    /\ returns = {}
    /\ handles = {}
    /\ verify_req = Idle
    /\ return_req = Idle
    /\ reply = NoReply

\* the status routes on one order of seller 1
InitStatus ==
    /\ InitOffice({SeedOrder(1, 1)}, {SeedItem(1)}, {})
    /\ foreign_keys = FALSE

NextStatus ==
    \/ \E u \in Actors, order_id \in OrderIds : ReturnOrder(u, order_id)
    \/ \E u \in Actors, order_id \in OrderIds, status \in OrderStatusValues :
          UpdateOrderStatus(u, order_id, status)
    \/ \E u \in Actors, order_id \in OrderIds, status \in InvoiceStatusInputs :
          UpdateInvoiceStatus(u, order_id, status)

SpecStatus == InitStatus /\ [][NextStatus]_vars

\* returns and deletions on the orders of two sellers, the first with an
\* installation
InitReturns ==
    /\ InitOffice({SeedOrder(1, 1), SeedOrder(2, 2)}, {SeedItem(1), SeedItem(2)},
                  {[order_id |-> 1, by |-> 0]})
    /\ foreign_keys \in BOOLEAN

NextReturns ==
    \/ \E u \in Actors, return_data \in ReturnCreate : CreateReturnValidate(u, return_data)
    \/ CreateReturnCommit
    \/ \E u \in Actors, order_id \in OrderIds : DeleteOrder(u, order_id)

SpecReturns == InitReturns /\ [][NextReturns]_vars

\* the discount routes on an empty table
InitDiscountAdmin ==
    /\ InitOffice({}, {}, {})
    /\ foreign_keys = FALSE

NextDiscountAdmin ==
    \/ \E discount_data \in DiscountCreates : CreateDiscount(discount_data)
    \/ \E d \in DiscountIds, discount_data \in DiscountUpdates : UpdateDiscount(d, discount_data)
    \/ \E d \in DiscountIds : DeleteDiscount(d)

SpecDiscountAdmin == InitDiscountAdmin /\ [][NextDiscountAdmin]_vars

\* the online payment path of seller 1: no local order yet, the customer known
\* or not, an optional category discount of 10%
InitVerify ==
    /\ InitRequests({})
    /\ credit \in InitialCredits
    /\ initial_credit = credit
    /\ user_credit = [p \in Procs |-> credit]
    /\ customers \in {{}, {[mobile |-> "0912", by |-> 0]}}
    /\ orders = {}
    /\ order_items = {}
    /\ installations = {}
    /\ user_lock = 0
    /\ next_order_id = 1
    /\ woo_orders = {}
    /\ next_woo_id = 1
    /\ discounts \in {[d \in DiscountIds |-> NoDiscount],
                      [d \in DiscountIds |->
                          IF d = 2 THEN DiscountRow(1, 2, 10, TRUE) ELSE NoDiscount]}
    /\ order_data = [p \in Procs |->
          [items |-> <<[product_id |-> 1, quantity |-> 2, price |-> 100, variation_id |-> 0]>>,
           payment_method |-> "online", installation_date |-> FALSE]]
    /\ today = 1
    /\ returns = {}
    /\ foreign_keys \in BOOLEAN
    /\ handles = {}
    /\ verify_req = Idle
    /\ return_req = Idle
    /\ reply = NoReply

\* the carts of the online payment path: one line of product 1, priced or not
PendingOrders ==
    {od \in OrderCreate :
        /\ Len(od.items) = 1
        /\ od.items[1].product_id = 1
        /\ od.items[1].quantity = 2
        /\ od.items[1].variation_id = 0}

NextVerify ==
    \/ \E od \in PendingOrders, answers \in [{1} -> CatalogAnswers] :
          CreatePendingOrder(od, answers)
    \/ \E woo_order \in woo_orders, outcome \in PaymentOutcomes :
          ExternalPayment(woo_order, outcome)
    \/ \E verify_data \in VerifyRequests : VerifyFetch(verify_data)
    \/ VerifyRegister
    \/ VerifyUpdateMirror
    \/ \E h \in handles : CancelPendingOrder(h.woo_order_id)
    \/ NextDay

SpecVerify == InitVerify /\ [][NextVerify]_vars

\* invoice edits, approvals and status changes on the order of seller 1, by
\* every caller; the payloads give a field a new value or leave it out
EditPayloads ==
    {u \in InvoiceUpdates : u.tax_amount \in {-1, 9} /\ u.discount_amount \in {-1, 4}}

NextEdit ==
    \/ \E u \in Actors, o \in orders, invoice_data \in EditPayloads :
          UpdateInvoice(u, o.id, invoice_data)
    \/ \E u \in Actors, o \in orders, invoice_data \in EditPayloads :
          ApproveInvoiceEdit(u, o.id, invoice_data)
    \/ \E u \in Actors, o \in orders : ReturnOrder(u, o.id)
    \/ \E u \in Actors, o \in orders, status \in OrderStatusValues :
          UpdateOrderStatus(u, o.id, status)
    \/ \E u \in Actors, o \in orders, status \in InvoiceStatusInputs :
          UpdateInvoiceStatus(u, o.id, status)

SpecEdit == InitStatus /\ [][NextEdit]_vars

\* the same cart of seller 1 registered by create_order and, after that request
\* has ended, sent through the online payment path
InitBoth ==
    /\ InitRequests({1})
    /\ credit \in InitialCredits
    /\ initial_credit = credit
    /\ user_credit = [p \in Procs |-> credit]
    /\ customers = {[mobile |-> "0912", by |-> 0]}
    /\ orders = {}
    /\ order_items = {}
    /\ installations = {}
    /\ user_lock = 0
    /\ next_order_id = 1
    /\ woo_orders = {}
    /\ next_woo_id = 1
    /\ discounts \in {[d \in DiscountIds |-> NoDiscount],
                      [d \in DiscountIds |->
                          IF d = 2 THEN DiscountRow(1, 2, 10, TRUE) ELSE NoDiscount]}
    /\ \E od \in PendingOrders : order_data = [p \in Procs |-> od]
    /\ today = 1
    /\ returns = {}
    /\ foreign_keys = FALSE
    /\ handles = {}
    /\ verify_req = Idle
    /\ return_req = Idle
    /\ reply = NoReply

NextBoth ==
    \/ CreateOrder(1)
    \/ \E answers \in [{1} -> CatalogAnswers] :
          /\ pc[1] = "done"
          /\ CreatePendingOrder([order_data[1] EXCEPT !.payment_method = "online"], answers)
    \/ \E woo_order \in woo_orders, outcome \in PaymentOutcomes :
          ExternalPayment(woo_order, outcome)
    \/ \E verify_data \in VerifyRequests : VerifyFetch(verify_data)
    \/ VerifyRegister
    \/ VerifyUpdateMirror

SpecBoth == InitBoth /\ [][NextBoth]_vars

\* ------------------------------------------------------------------ claims
RowsBy(rows, p) == {r \in rows : r.by = p}

RECURSIVE SumItemTotals(_)
\* the sum of total over a set of OrderItem rows
SumItemTotals(rows) ==
    IF rows = {} THEN 0
    ELSE LET r == CHOOSE x \in rows : TRUE IN r.total + SumItemTotals(rows \ {r})

RECURSIVE SumWholesale(_)
\* the sum of wholesale_amount over a set of Order rows
SumWholesale(rows) ==
    IF rows = {} THEN 0
    ELSE LET r == CHOOSE x \in rows : TRUE IN r.wholesale_amount + SumWholesale(rows \ {r})

NoLocalRows(p) ==
    /\ RowsBy(orders, p) = {}
    /\ RowsBy(order_items, p) = {}
    /\ RowsBy(installations, p) = {}
    /\ RowsBy(customers, p) = {}

\* C1: two concurrent credit orders of one seller whose balance covers only
\* one of them are never both accepted: the balance never becomes negative
\* and always reflects every accepted credit order (balance = initial balance
\* less the wholesale amounts of the committed credit orders).
C1_ConcurrentCreditOrders ==
    /\ credit >= 0
    /\ credit = initial_credit
                  - SumWholesale({o \in orders : o.payment_method = "credit"})

\* C2: every stored OrderItem has total = quantity * price, and the order's
\* wholesale_amount is the sum of the totals of its items.
C2_LineTotalConsistency ==
    \A o \in orders :
        LET its == {r \in order_items : r.order_id = o.id}
        IN  /\ \A r \in its : r.total = r.quantity * r.price
            /\ o.wholesale_amount = SumItemTotals(its)

\* C3: a cart with an item whose price is missing or <= 0 makes create_order
\* fail with no side effect: no external create call, no Customer, Order,
\* OrderItem or Installation row, and the credit unchanged.
C3_MissingPriceNoSideEffects ==
    \A p \in Procs :
        (\E i \in DOMAIN order_data[p].items : order_data[p].items[i].price <= 0)
        => /\ RowsBy(woo_orders, p) = {}
           /\ woo_order_id[p] = 0
           /\ response[p] # "500 mirror"
           /\ NoLocalRows(p)
           /\ deducted[p] = 0
           /\ user_lock # p
           /\ pc[p] = "done" => response[p] \notin {"200", "none"}

\* a two-line order is rejected at its second line, after the first line was
\* priced and a new Customer was flushed, and nothing of it is left
C3_Witness ==
    \E p \in Procs :
        /\ pc[p] = "done"
        /\ response[p] = "400 price"
        /\ idx[p] = 2
        /\ order_data[p].items[1].price > 0
        /\ order_data[p].items[2].price <= 0
        /\ order_data[p].payment_method = "credit"
        /\ customers = {}

\* C6: two runs on the same cart that resolved the same discounts have the
\* same wholesale_total, the same OrderItem prices and totals, the same
\* wholesale_amount and the same credit deduction, whatever retail prices the
\* catalog returned to each.
C6_RetailIndependence ==
    \A p, q \in Procs :
        (order_data[p] = order_data[q] /\ applied[p] = applied[q])
        => /\ wholesale_total[p] = wholesale_total[q]
           /\ \A o1 \in RowsBy(orders, p), o2 \in RowsBy(orders, q) :
                 o1.wholesale_amount = o2.wholesale_amount
           /\ \A r1 \in RowsBy(order_items, p), r2 \in RowsBy(order_items, q) :
                 r1.line = r2.line => (r1.price = r2.price /\ r1.total = r2.total)
           /\ (deducted[p] # 0 /\ deducted[q] # 0) => deducted[p] = deducted[q]

\* both runs committed a discounted order and saw different retail totals
C6_Witness ==
    \E o1 \in RowsBy(orders, 1), o2 \in RowsBy(orders, 2) :
        /\ applied[1] = applied[2]
        /\ applied[1] # <<0>>
        /\ o1.total_amount # o2.total_amount
        /\ o1.wholesale_amount = o2.wholesale_amount
        /\ RowsBy(order_items, 1) # {}
        /\ RowsBy(order_items, 2) # {}

\* C8: a create_order rejected for insufficient credit leaves nothing behind:
\* no external order of the request, no local row, the credit unchanged.
C8_InsufficientCreditNoEffect ==
    \A p \in Procs :
        response[p] = "400 credit"
        => /\ RowsBy(woo_orders, p) = {}
           /\ NoLocalRows(p)
           /\ deducted[p] = 0

\* C9: when the external create call returns nothing, create_order fails, no
\* local Order, OrderItem or Installation row is created and the credit is
\* not deducted.
C9_MirrorFailureNoLocalOrder ==
    \A p \in Procs :
        (pc[p] \notin {"idle", "start", "pricing"} /\ woo_order_id[p] = 0)
        => /\ pc[p] = "done"
           /\ response[p] \notin {"200", "none"}
           /\ NoLocalRows(p)
           /\ deducted[p] = 0
           /\ order[p] = NoOrder

\* a fully priced credit order whose external create call failed
C9_Witness ==
    \E p \in Procs :
        /\ response[p] = "500 mirror"
        /\ idx[p] > Len(order_data[p].items)
        /\ wholesale_total[p] > 0
        /\ order_data[p].payment_method = "credit"
        /\ order_data[p].installation_date
        /\ credit = initial_credit

SpecificDiscounts(u, cats, from) ==
    UNION {MatchingDiscounts(discounts, u, cats[i]) : i \in from..Len(cats)}

PercentagesOf(ds) == {discounts[d].discount_percentage : d \in ds}

\* request p prices a cart line in this step
Prices(p) == pc[p] = "pricing" /\ idx'[p] = idx[p] + 1

\* C4: when the user has an active general discount and an active category
\* discount only for a later category of the product, pricing resolves the
\* category discount, not the general one.
C4_CategoryBeforeGeneral ==
    [][\A p \in Procs :
          Prices(p) =>
            LET cats == Categories(order_data[p].items[idx[p]].product_id)
                u == CurrentUserId(p)
            IN  (/\ MatchingDiscounts(discounts, u, 0) # {}
                 /\ MatchingDiscounts(discounts, u, cats[1]) = {}
                 /\ SpecificDiscounts(u, cats, 2) # {})
                => applied'[p][idx[p]] \in PercentagesOf(SpecificDiscounts(u, cats, 2))]_vars

\* C5: with an active category discount and an active general discount the
\* category percentage is applied to a product of that category; with the
\* category discount deactivated the general percentage is applied; with no
\* active discount the price is not reduced.
C5_DiscountPriority ==
    [][\A p \in Procs :
          Prices(p) =>
            LET item == order_data[p].items[idx[p]]
                cats == Categories(item.product_id)
                u == CurrentUserId(p)
                general == MatchingDiscounts(discounts, u, 0)
                specific == SpecificDiscounts(u, cats, 1)
                pct == applied'[p][idx[p]]
            IN  /\ (general # {} /\ specific # {}) => pct \in PercentagesOf(specific)
                /\ (general # {} /\ specific = {}) => pct \in PercentagesOf(general)
                /\ (general = {} /\ specific = {})
                      => /\ pct = 0
                         /\ wholesale_total'[p] - wholesale_total[p]
                               = item.quantity * item.price]_vars

\* C7: every local Order has
\* cooperation_total_amount = wholesale_amount + tax_amount - discount_amount.
C7_CooperationTotal ==
    \A o \in orders :
        o.cooperation_total_amount = o.wholesale_amount + o.tax_amount - o.discount_amount

\* a step of the back-office route op (create_order steps leave reply alone)
Calls(op) == reply'.op = op /\ UNCHANGED reqVars

ActorWithId(id) == CHOOSE u \in Actors : u.id = id

\* C16: update_invoice by a seller on their own order sets edit_requested_by/at
\* to that seller and clears edit_approved_by/at; update_invoice by a clerk
\* sets edit_approved_by/at to the clerk and leaves edit_requested_by/at alone.
C16_EditRequestAndDirectEdit ==
    [][\A o \in orders :
          (Calls("update_invoice") /\ reply'.id = o.id) =>
            LET caller == ActorWithId(reply'.caller)
                n == CHOOSE x \in orders' : x.id = o.id
            IN  /\ (caller.role = "seller" /\ o.seller_id = caller.id)
                      => /\ reply'.code = "200"
                         /\ n.edit_requested_by = caller.id
                         /\ n.edit_requested_at = today
                         /\ n.edit_approved_by = 0
                         /\ n.edit_approved_at = 0
                /\ caller.role \in {"operator", "admin"}
                      => /\ reply'.code = "200"
                         /\ n.edit_approved_by = caller.id
                         /\ n.edit_approved_at = today
                         /\ n.edit_requested_by = o.edit_requested_by
                         /\ n.edit_requested_at = o.edit_requested_at]_vars

\* a seller's edit request stands on the order, the invoice fields edited
C16_Witness ==
    /\ reply.op = "update_invoice" /\ reply.code = "200" /\ reply.caller = 1
    /\ \E o \in orders :
          /\ o.id = reply.id /\ o.seller_id = 1
          /\ o.edit_requested_by = 1 /\ o.edit_approved_by = 0 /\ o.tax_amount = 9

\* C17: approve_invoice_edit on an order whose edit_requested_by is null fails
\* with the no-edit-pending error and changes no field of the order.
C17_NoEditPending ==
    [][\A o \in orders :
          (Calls("approve_invoice_edit") /\ reply'.id = o.id /\ o.edit_requested_by = 0)
          => /\ orders' = orders
             /\ ActorWithId(reply'.caller).role \in {"operator", "admin"}
                   => reply'.code = "400 no edit pending"]_vars

\* an approval was refused on an order without an edit request
C17_Witness ==
    /\ reply.op = "approve_invoice_edit" /\ reply.code = "400 no edit pending"
    /\ \E o \in orders : o.id = reply.id /\ o.edit_requested_by = 0

\* C13: return_order on a returned order fails with the already-returned
\* error and on a cancelled order with the cannot-return-cancelled error, status
\* and is_new unchanged; a return_order that follows a successful return_order
\* of the same order fails.
C13_ReturnGuards ==
    [][\A o \in orders :
          (Calls("return_order") /\ reply'.id = o.id) =>
            LET caller == ActorWithId(reply'.caller)
                allowed == ~(caller.role = "seller" /\ o.seller_id # caller.id)
            IN  /\ StatusEnum(o.status) = "returned"
                      => /\ orders' = orders
                         /\ allowed => reply'.code = "400 already returned"
                /\ StatusEnum(o.status) = "cancelled"
                      => /\ orders' = orders
                         /\ allowed => reply'.code = "400 cannot return cancelled"
                /\ (reply.op = "return_order" /\ reply.id = o.id /\ reply.code = "200")
                      => reply'.code # "200"]_vars

\* a second return of a returned order was refused
C13_Witness ==
    /\ reply.op = "return_order" /\ reply.code = "400 already returned"
    /\ \E o \in orders : o.id = reply.id /\ o.status = "returned" /\ ~o.is_new

\* C15 as stated: update_invoice_status accepts exactly the values whose
\* lowercase form is pending_completion, in_progress or settled and stores that
\* form; any other value is rejected and leaves the order unchanged.
C15_InvoiceStatusValues ==
    [][\A o \in orders :
          (/\ Calls("update_invoice_status") /\ reply'.id = o.id
           /\ ActorWithId(reply'.caller).role \in {"operator", "admin"})
          => LET n == CHOOSE x \in orders' : x.id = o.id
             IN  IF Lower(reply'.status) \in {"pending_completion", "in_progress", "settled"}
                 THEN /\ reply'.code \in {"200", "500"}
                      /\ reply'.code = "200" => n.status = Lower(reply'.status) /\ ~n.is_new
                 ELSE /\ reply'.code = "400"
                      /\ orders' = orders]_vars

\* C15 amended: the value is compared after lowercasing and removing
\* surrounding whitespace, and stored in that form; any other value is
\* rejected and leaves status and is_new unchanged.
C15_InvoiceStatusValuesStripped ==
    [][\A o \in orders :
          (/\ Calls("update_invoice_status") /\ reply'.id = o.id
           /\ ActorWithId(reply'.caller).role \in {"operator", "admin"})
          => LET n == CHOOSE x \in orders' : x.id = o.id
                 key == Strip(Lower(reply'.status))
             IN  IF key \in {"pending_completion", "in_progress", "settled"}
                 THEN /\ reply'.code \in {"200", "500"}
                      /\ reply'.code = "200" => n.status = key /\ ~n.is_new
                 ELSE /\ reply'.code = "400"
                      /\ orders' = orders]_vars

\* SETTLED was accepted and stored as settled
C15_Witness ==
    /\ reply.op = "update_invoice_status" /\ reply.code = "200" /\ reply.status = "SETTLED"
    /\ \E o \in orders : o.id = reply.id /\ o.status = "settled" /\ ~o.is_new

\* C14: every entry of every persisted Return names an OrderItem of the
\* Return's order, with a quantity not above that OrderItem's quantity.
C14_ReturnItemsValid ==
    \A r \in returns :
        \A i \in 1..Len(r.items) :
            \E row \in order_items :
                /\ row.order_id = r.order_id
                /\ OrderItemId(row) = r.items[i].order_item_id
                /\ r.items[i].quantity <= row.quantity

\* C19: no Installation, Return or OrderItem row references an Order that
\* does not exist.
C19_NoDanglingRows ==
    \A r \in installations \cup returns \cup order_items :
        \E o \in orders : o.id = r.order_id

\* C20: there is at most one active Discount per (user, category) pair, the
\* general pair (category none) included.
C20_OneActiveDiscountPerPair ==
    \A d1, d2 \in DiscountIds :
        (/\ d1 # d2
         /\ discounts[d1].exists /\ discounts[d1].is_active
         /\ discounts[d2].exists /\ discounts[d2].is_active)
        => \/ discounts[d1].user_id # discounts[d2].user_id
           \/ discounts[d1].category_id # discounts[d2].category_id


\* ---- online payment
\* C11: after any sequence of verify_payment_and_register_order calls for one
\* external order id there is at most one local Order for that external order
C11_OneOrderPerExternalOrder ==
    \A o1 \in orders, o2 \in orders :
        (o1.order_number[2] = o2.order_number[2] /\ o1.order_number[2] # 0) => o1 = o2

\* C12: verify_payment_and_register_order writes a local Order only for an
\* external order it fetched as paid (payment_status paid, or status processing
\* or completed); when the order cannot be fetched or is not paid the call
\* fails, no local row is written and the external order is not updated
C12_RegisterOnlyWhenPaid ==
    [][/\ (Calls("verify_payment") /\ reply'.code \in {"404 order", "400 unpaid"}) =>
             /\ UNCHANGED <<dbVars, wooVars, returns>>
             /\ verify_req' = Idle
       /\ (Calls("verify_payment") /\ orders' # orders) =>
             /\ verify_req.pc = "register"
             /\ \/ verify_req.woo_order.payment_status \in {"paid", "PAID"}
                \/ verify_req.woo_order.status \in
                      {"processing", "completed", "Completed"}]_vars

C12_Witness ==
    /\ reply.op = "verify_payment" /\ reply.code = "400 unpaid"
    /\ orders = {} /\ order_items = {}
    /\ \E w \in woo_orders : w.id = reply.id /\ w.status = "failed"

\* the cart line an OrderItem of the online payment path was built from
HandleItem(row) ==
    LET o == CHOOSE o \in orders : o.id = row.order_id
        h == CHOOSE h \in handles : h.woo_order_id = o.order_number[2]
    IN  h.order_data.items[row.line]

\* the cooperation price of a cart line: the price the caller sent or, where
\* none was sent, the colleague price the first step priced the line with
CooperationPricesOf(item) ==
    IF item.price > 0 THEN {item.price} ELSE ColleaguePrices \ {0}

\* C18: the unit price of every OrderItem registered after an online payment
\* is the cooperation price of its cart line less the discount, never the
\* catalog retail price
C18_WholesaleFromCooperationPrice ==
    \A row \in order_items :
        \E price \in CooperationPricesOf(HandleItem(row)), pct \in {0} \cup Percentages :
            row.price = price - (price * pct) \div 100

\* ---- create_order: commit, retry, order of the steps
\* the first commit of request p failed and the retry commit went through
RetrySucceeded(p) ==
    /\ pc[p] \in {"respond", "done"}
    /\ ~refreshed[p]
    /\ RowsBy(order_items, p) # {}

\* C21: when the first commit of create_order fails and the retry commit
\* succeeds, the database holds the Order row (status pending, with its
\* order_number) and one OrderItem row per cart line
C21_RetryKeepsOrder ==
    \A p \in Procs :
        RetrySucceeded(p)
        => /\ \E o \in RowsBy(orders, p) :
                 /\ o.status = "pending"
                 /\ o.order_number = <<today, woo_order_id[p]>>
           /\ Cardinality(RowsBy(order_items, p)) = Len(order_data[p].items)

\* the wholesale totals of the credit requests whose Order row is committed
RECURSIVE CommittedDeductions(_)
CommittedDeductions(ps) ==
    IF ps = {} THEN 0
    ELSE LET p == CHOOSE x \in ps : TRUE
         IN  (IF order_data[p].payment_method = "credit" /\ RowsBy(orders, p) # {}
              THEN wholesale_total[p] ELSE 0) + CommittedDeductions(ps \ {p})

\* C22: when every create_order request has ended, the seller's credit is
\* reduced by the wholesale_total of exactly those credit requests whose Order
\* row is committed
C22_DeductionIffOrder ==
    (\A p \in Procs : pc[p] \in {"done", "idle"})
    => credit = initial_credit - CommittedDeductions(Procs)

\* C23: within one create_order request the external order is created only
\* after every cart line was priced (a line whose product is not found or
\* whose price is missing prevents it), and the Order is neither built and
\* flushed nor committed before the external create call has succeeded
C23_PricingMirrorCommitOrder ==
    [][\A p \in Procs :
          /\ RowsBy(woo_orders', p) # RowsBy(woo_orders, p)
                => /\ pc[p] = "pricing"
                   /\ Len(applied[p]) = Len(order_data[p].items)
                   /\ \A i \in DOMAIN order_data[p].items : order_data[p].items[i].price > 0
          /\ response'[p] \in {"404 product", "400 price"}
                => /\ RowsBy(woo_orders', p) = {}
                   /\ NoLocalRows(p)'
          /\ (order'[p] # order[p] \/ RowsBy(orders', p) # RowsBy(orders, p))
                => /\ RowsBy(woo_orders, p) # {}
                   /\ woo_order_id[p] # 0]_vars

\* a two-line order went through pricing, the external create and the commit
C23_Witness ==
    \E p \in Procs :
        /\ pc[p] = "done" /\ response[p] = "200"
        /\ Len(order_data[p].items) = 2
        /\ RowsBy(woo_orders, p) # {}
        /\ RowsBy(orders, p) # {}
        /\ Cardinality(RowsBy(order_items, p)) = 2

\* ---- invoice edits, continued
\* C24: an update_invoice call of a seller or store manager only records the
\* edit request: the invoice fields of the order stay as they were
C24_RequestLeavesInvoiceFields ==
    [][\A o \in orders :
          (/\ Calls("update_invoice") /\ reply'.id = o.id
           /\ ActorWithId(reply'.caller).role \in {"seller", "store_manager"})
          => \A n \in orders' :
                n.id = o.id => /\ n.tax_amount = o.tax_amount
                               /\ n.discount_amount = o.discount_amount]_vars

\* ---- order status, continued
\* C26: update_order_status has no transition table: an operator's call on an
\* existing order, whatever its status, stores the status given, and clears
\* is_new exactly when that status is not pending (is_new keeps its value when
\* the status given is pending)
C26_AnyStatusFollowsAny ==
    [][\A o \in orders :
          (/\ Calls("update_order_status") /\ reply'.id = o.id
           /\ ActorWithId(reply'.caller).role = "operator")
          => /\ reply'.code = "200"
             /\ reply'.status \in OrderStatusValues
             /\ orders' = (orders \ {o}) \cup
                   {[o EXCEPT !.status = reply'.status,
                              !.is_new = IF reply'.status = "pending" THEN o.is_new
                                         ELSE FALSE]}]_vars

\* a returned order was set back to pending and its is_new flag stayed cleared
C26_Witness ==
    /\ reply.op = "update_order_status" /\ reply.code = "200" /\ reply.status = "pending"
    /\ \E o \in orders : o.id = reply.id /\ o.status = "pending" /\ ~o.is_new

C25_MirrorUpdateAfterCommit ==
    [][Calls("verify_payment") =>
          /\ woo_orders' # woo_orders
                => \E o \in orders : o.order_number[2] = reply'.id
          /\ reply'.code = "200"
                => \E w \in woo_orders' : w.id = reply'.id /\ w.status = "processing"]_vars

\* ---- customers
\* C27: after any sequence or interleaving of order creations there is at most
\* one Customer row per mobile number
C27_OneCustomerPerMobile ==
    \A c1 \in customers, c2 \in customers : c1.mobile = c2.mobile => c1 = c2

\* ---- the two registration paths
\* C28: for the same cart, seller and active discounts, create_order and
\* verify_payment_and_register_order store the same OrderItem price and total
\* per cart line and the same wholesale_amount and cooperation_total_amount
C28_SameRowsInBothFlows ==
    \A o1 \in RowsBy(orders, 1), o2 \in RowsBy(orders, 0) :
        /\ o1.wholesale_amount = o2.wholesale_amount
        /\ o1.cooperation_total_amount = o2.cooperation_total_amount
        /\ \A r1 \in order_items, r2 \in order_items :
              (r1.order_id = o1.id /\ r2.order_id = o2.id /\ r1.line = r2.line)
              => (r1.price = r2.price /\ r1.total = r2.total)

\* C29: under any interleaving of verify_payment_and_register_order and
\* cancel_pending_order for one external order, the external order of every
\* locally committed Order is still there
C29_RegisteredOrderKeepsMirror ==
    \A o \in orders :
        o.order_number[2] # 0 => \E w \in woo_orders : w.id = o.order_number[2]


====
